---- MODULE Spec2Model ----
(***************************************************************************)
(* Model of src/aggregate_data.py: a single-shot batch script that joins   *)
(* SA2 boundary polygons with census dwelling counts, computes a housing   *)
(* density, labels the top 30% as developed, buffers them by 10 km and     *)
(* keeps the nearby regions whose density lies in [10, 200].               *)
(*                                                                         *)
(* Modelling conventions                                                   *)
(*  - text is a sequence of one-character strings;                         *)
(*  - a float is an exact rational [n, d] with d > 0 in lowest terms, or   *)
(*    Inf ([n |-> 1, d |-> 0]) or NaN ([n |-> 0, d |-> 0]); comparisons    *)
(*    follow IEEE-754 (every comparison with NaN is false);                *)
(*  - a geometry is a closed interval [lo, hi] on one axis; buffering by r *)
(*    gives [lo - r, hi + r] and two geometries intersect when they share  *)
(*    a point (touching included);                                         *)
(*  - a frame is [cols, crs, rows]: the column names, the EPSG code of the *)
(*    geometry column, and the rows in order.                              *)
(***************************************************************************)
EXTENDS Integers, Sequences, FiniteSets, TLC

\* ------------------------------------------------------------------ bounds
MaxRegions == 3
MaxShp == 2
MaxCsv == 2
MetersPerUnit == 5000

\* ------------------------------------------------------- program constants
quantile_q == 70
buffer_distance == 10000
min_density == 10
max_density == 200
EPSG_SOURCE == 7844
EPSG_METERS == 3857
EPSG_WGS84 == 4326

\* -------------------------------------------------------------------- text
Whitespace == {" ", "\t"}

DigitChar(d) ==
  CASE d = 0 -> "0" [] d = 1 -> "1" [] d = 2 -> "2" [] d = 3 -> "3"
    [] d = 4 -> "4" [] d = 5 -> "5" [] d = 6 -> "6" [] d = 7 -> "7"
    [] d = 8 -> "8" [] d = 9 -> "9"

DigitVal(c) ==
  CASE c = "0" -> 0 [] c = "1" -> 1 [] c = "2" -> 2 [] c = "3" -> 3
    [] c = "4" -> 4 [] c = "5" -> 5 [] c = "6" -> 6 [] c = "7" -> 7
    [] c = "8" -> 8 [] c = "9" -> 9

Digits == {"0", "1", "2", "3", "4", "5", "6", "7", "8", "9"}

RECURSIVE IntToStr(_)
IntToStr(n) ==
  IF n < 10 THEN <<DigitChar(n)>>
  ELSE Append(IntToStr(n \div 10), DigitChar(n % 10))

\* astype(str): an integer cell prints in decimal, a text cell is itself
AsTypeStr(cell) ==
  IF cell.t = "int" THEN IntToStr(cell.i) ELSE cell.s

RECURSIVE LStrip(_)
LStrip(s) ==
  IF s = <<>> THEN s
  ELSE IF Head(s) \in Whitespace THEN LStrip(Tail(s)) ELSE s

RECURSIVE RStrip(_)
RStrip(s) ==
  IF s = <<>> THEN s
  ELSE IF s[Len(s)] \in Whitespace THEN RStrip(SubSeq(s, 1, Len(s) - 1)) ELSE s

\* str.strip(): leading and trailing whitespace removed
Strip(s) == RStrip(LStrip(s))

\* only the leading whitespace removed
NormalizeKeyLeft(cell) == LStrip(AsTypeStr(cell))

NormalizeKey(cell) == Strip(AsTypeStr(cell))

\* ------------------------------------------------------------------ floats
NaN == [n |-> 0, d |-> 0]
Inf == [n |-> 1, d |-> 0]

IsNaN(x) == x.d = 0 /\ x.n = 0
IsInf(x) == x.d = 0 /\ x.n # 0
IsFinite(x) == x.d # 0

RECURSIVE GCD(_, _)
GCD(a, b) == IF b = 0 THEN a ELSE GCD(b, a % b)

Rat(n, d) ==
  LET g == GCD(n, d) IN
  IF n = 0 THEN [n |-> 0, d |-> 1] ELSE [n |-> n \div g, d |-> d \div g]

Num(k) == [n |-> k, d |-> 1]

\* x >= y on floats
GE(x, y) ==
  IF IsNaN(x) \/ IsNaN(y) THEN FALSE
  ELSE IF IsInf(x) THEN TRUE
  ELSE IF IsInf(y) THEN FALSE
  ELSE x.n * y.d >= y.n * x.d

\* x <= y on floats
LE(x, y) == GE(y, x)

\* x / y for a count x (finite or NaN, never negative) and an area y >= 0
FDiv(x, y) ==
  IF IsNaN(x) \/ IsNaN(y) THEN NaN
  ELSE IF y.n = 0 THEN (IF x.n = 0 THEN NaN ELSE Inf)
  ELSE Rat(x.n * y.d, x.d * y.n)

\* x - y for x >= y >= 0
FSub(x, y) ==
  IF IsNaN(x) \/ IsNaN(y) THEN NaN
  ELSE IF IsInf(x) THEN (IF IsInf(y) THEN NaN ELSE Inf)
  ELSE Rat(x.n * y.d - y.n * x.d, x.d * y.d)

\* x + y for x, y >= 0
FAdd(x, y) ==
  IF IsNaN(x) \/ IsNaN(y) THEN NaN
  ELSE IF IsInf(x) \/ IsInf(y) THEN Inf
  ELSE Rat(x.n * y.d + y.n * x.d, x.d * y.d)

\* x * y for x, y >= 0 (Inf * 0 is NaN)
FMul(x, y) ==
  IF IsNaN(x) \/ IsNaN(y) THEN NaN
  ELSE IF IsInf(x) \/ IsInf(y)
       THEN (IF (IsFinite(x) /\ x.n = 0) \/ (IsFinite(y) /\ y.n = 0)
             THEN NaN ELSE Inf)
  ELSE Rat(x.n * y.n, x.d * y.d)

\* ---------------------------------------------------------------- parsing
RECURSIVE ParseDigits(_, _)
ParseDigits(s, acc) ==
  IF s = <<>> THEN acc ELSE ParseDigits(Tail(s), 10 * acc + DigitVal(Head(s)))

\* pd.to_numeric(..., errors='coerce') on one cell: a number stays, a text of
\* decimal digits parses, anything else (other text, empty text, missing)
\* becomes NaN
ToNumeric(cell) ==
  IF cell.t = "int" THEN Num(cell.i)
  ELSE IF cell.t = "str"
       THEN (IF cell.s # <<>> /\ \A k \in 1..Len(cell.s) : cell.s[k] \in Digits
             THEN Num(ParseDigits(cell.s, 0)) ELSE NaN)
  ELSE NaN

\* ---------------------------------------------------------------- quantile
\* ascending order; equal values keep their order, Inf sorts last
SortAsc(s) ==
  LET Before(i, j) ==
        \/ ~GE(s[i], s[j])
        \/ (GE(s[j], s[i]) /\ i < j)
      Rank(i) == Cardinality({j \in 1..Len(s) : Before(j, i)}) + 1
  IN [k \in 1..Len(s) |-> s[CHOOSE i \in 1..Len(s) : Rank(i) = k]]

Min2(a, b) == IF a <= b THEN a ELSE b

\* current numpy (_lerp): a + (b - a) * t, recomputed as b - (b - a) * (1 - t)
\* where t >= 0.5
LerpSub(a, b, t) ==
  LET diff == FSub(b, a) IN
  IF GE(t, Rat(1, 2)) THEN FSub(b, FMul(diff, FSub(Num(1), t)))
  ELSE FAdd(a, FMul(diff, t))

\* older numpy releases: a * (1 - t) + b * t
LerpWeights(a, b, t) == FAdd(FMul(a, FSub(Num(1), t)), FMul(b, t))

\* the lower neighbour instead of the interpolated value
QuantileLower(lerp, col, q) ==
  LET vals == SortAsc(SelectSeq(col, LAMBDA x : ~IsNaN(x)))
      cnt == Len(vals)
  IN IF cnt = 0 THEN NaN ELSE vals[((q * (cnt - 1)) \div 100) + 1]

\* Series.quantile(q) with linear interpolation: NaNs skipped, the rest
\* sorted, the value at position q * (n - 1) interpolated between the two
\* neighbouring order statistics; NaN for an empty column
QuantileBy(lerp, col, q) ==
  LET vals == SortAsc(SelectSeq(col, LAMBDA x : ~IsNaN(x)))
      cnt == Len(vals)
      pos == q * (cnt - 1)
      lo == pos \div 100
      frac == Rat(pos % 100, 100)
      a == vals[lo + 1]
      b == vals[Min2(lo + 2, cnt)]
  IN IF cnt = 0 THEN NaN
     ELSE IF lerp = "sub" THEN LerpSub(a, b, frac)
     ELSE LerpWeights(a, b, frac)

\* ---------------------------------------------------------------- geometry
Geom(lo, hi) == [lo |-> lo, hi |-> hi]

\* a missing (None) geometry
NoneGeom == [lo |-> 0, hi |-> -1]

IsNa(g) == g = NoneGeom

\* geometry.buffer(r); None stays None
Buffer(g, r) == IF IsNa(g) THEN g ELSE Geom(g.lo - r, g.hi + r)

\* interiors overlap; touching does not count
IntersectsInterior(g, h) == ~IsNa(g) /\ ~IsNa(h) /\ g.lo < h.hi /\ h.lo < g.hi

\* shapely intersects: the two share at least one point
Intersects(g, h) == ~IsNa(g) /\ ~IsNa(h) /\ g.lo <= h.hi /\ h.lo <= g.hi

\* unary_union of a geometry column: a multi-geometry, kept as its parts;
\* missing geometries are skipped
UnaryUnion(rows) ==
  {rows[k].geometry : k \in {j \in 1..Len(rows) : ~IsNa(rows[j].geometry)}}

IntersectsUnion(g, parts) == \E p \in parts : Intersects(g, p)

IsGeographic(epsg) == epsg \in {EPSG_SOURCE, EPSG_WGS84}

\* reprojection of one geometry; the projection is modelled as the linear
\* scaling of one grid unit to MetersPerUnit metres
Transform(g, from, to) ==
  IF IsNa(g) THEN g
  ELSE IF IsGeographic(from) /\ to = EPSG_METERS
    THEN Geom(g.lo * MetersPerUnit, g.hi * MetersPerUnit)
  ELSE IF from = EPSG_METERS /\ IsGeographic(to)
    THEN Geom(g.lo \div MetersPerUnit, g.hi \div MetersPerUnit)
  ELSE g

\* ------------------------------------------------------------------ frames
\* row with column c set to v
WithCol(row, c, v) ==
  [k \in (DOMAIN row) \cup {c} |-> IF k = c THEN v ELSE row[k]]

\* frame[c] = values, a column aligned with the rows
Assign(frame, c, values) ==
  [frame EXCEPT !.cols = @ \cup {c},
                !.rows = [k \in 1..Len(frame.rows) |->
                            WithCol(frame.rows[k], c, values[k])]]

\* frame[mask], a boolean column aligned with the rows
Filter(frame, mask) ==
  LET kept == SelectSeq([k \in 1..Len(frame.rows) |-> k], LAMBDA k : mask[k])
  IN [frame EXCEPT !.rows = [j \in 1..Len(kept) |-> frame.rows[kept[j]]]]

\* GeoDataFrame.to_crs(epsg)
ToCrs(frame, epsg) ==
  [frame EXCEPT !.crs = epsg,
                !.rows = [k \in 1..Len(frame.rows) |->
                   WithCol(frame.rows[k], "geometry",
                           Transform(frame.rows[k].geometry, frame.crs, epsg))]]

Column(frame, c) == [k \in 1..Len(frame.rows) |-> frame.rows[k][c]]

ColumnSet(frame, c) == {frame.rows[k][c] : k \in 1..Len(frame.rows)}

\* the rows of left x right with equal keys, in left order then right order
MergeRows(lrows, rrows, lkey, rkey) ==
  LET R == Len(rrows)
      pairs == [k \in 1..(Len(lrows) * R) |->
                  <<((k - 1) \div R) + 1, ((k - 1) % R) + 1>>]
      hits == SelectSeq(pairs, LAMBDA pr : lrows[pr[1]][lkey] = rrows[pr[2]][rkey])
  IN [k \in 1..Len(hits) |->
        LET l == lrows[hits[k][1]]
            r == rrows[hits[k][2]]
        IN [c \in (DOMAIN l) \cup (DOMAIN r) |->
              IF c \in DOMAIN l THEN l[c] ELSE r[c]]]

\* left.merge(right[[...]], left_on, right_on, how='inner')
InnerMerge(left, right, lkey, rkey) ==
  [cols |-> left.cols \cup right.cols,
   crs |-> left.crs,
   rows |-> MergeRows(left.rows, right.rows, lkey, rkey)]

\* ------------------------------------------------------------------- state
VARIABLES
  numpy_lerp,              \* how the installed numpy release interpolates
  shpFile,                 \* data/SA2_2021_AUST_GDA2020.shp as it is on disk
  csvFile,                 \* data/2021Census_G37_AUST_SA2.csv as it is on disk
  pc,                      \* the section of the script about to run
  failedAt,                \* source line of the uncaught exception, 0 if none
  gdf, housing,
  high_density_threshold, developed,
  gdf_m, developed_m, buffered, hot_zones_m,
  figure,                  \* layers drawn on the static map
  gdf_f, developed_f, hot_zones_f,
  m,                       \* layers added to the folium map
  saved                    \* growth_ready_hot_zone_map.html has been written

vars ==
  <<numpy_lerp, shpFile, csvFile, pc, failedAt, gdf, housing, high_density_threshold,
    developed, gdf_m, developed_m, buffered, hot_zones_m, figure, gdf_f,
    developed_f, hot_zones_f, m, saved>>

NoFrame == [cols |-> {}, crs |-> 0, rows |-> <<>>]

\* ------------------------------------------------------------------ inputs
IntCell(k) == [t |-> "int", i |-> k]
StrCell(str) == [t |-> "str", s |-> str]
NaCell == [t |-> "na"]

ShpCols == {"SA2_CODE21", "AREASQKM21", "geometry"}
CsvCols == {"SA2_CODE_2021", "Total_Total"}

\* where the k-th boundary polygon lies, in grid units: 1 and 2 are exactly
\* one buffer distance apart, 2 and 3 are closer, every other pair is farther
GeomAt(k) ==
  CASE k = 1 -> Geom(0, 1)
    [] k = 2 -> Geom(3, 3)
    [] k = 3 -> Geom(4, 5)
    [] OTHER -> Geom(4 * k - 8, 4 * k - 8)

ShpRow(code, area, g) ==
  [SA2_CODE21 |-> code, AREASQKM21 |-> area, geometry |-> g]

CsvRow(code, total) == [SA2_CODE_2021 |-> code, Total_Total |-> total]

ShpFile(rows) ==
  [readable |-> TRUE, cols |-> ShpCols, crs |-> EPSG_SOURCE, rows |-> rows]

CsvFile(rows) == [readable |-> TRUE, cols |-> CsvCols, rows |-> rows]

Areas == {0, 1, 2}
Totals == {0, 10, 200, 500}

SeqsUpTo(S, lim) == UNION {[1..c -> S] : c \in 1..lim}

\* (area, count) of one region; pairs that repeat a density are left out
GeoCells == (Areas \X Totals) \ {<<0, 10>>, <<0, 200>>, <<2, 0>>}

\* one census row per polygon, distinct codes; areas and counts vary
GeoInputs ==
  {<<ShpFile([k \in 1..Len(f) |-> ShpRow(StrCell(IntToStr(k)), f[k][1], GeomAt(k))]),
     CsvFile([k \in 1..Len(f) |-> CsvRow(IntCell(k), IntCell(f[k][2]))])>> :
     f \in SeqsUpTo(GeoCells, MaxRegions)}

ShpCodes == {StrCell(<<" ", "1">>), StrCell(<<"2", " ">>), StrCell(<<"3">>)}
CsvCodes == {IntCell(1), StrCell(<<"2", "\t">>)}
CsvTotals == {IntCell(200), StrCell(<<"5", "0", "0">>), StrCell(<<"x">>), NaCell}

\* codes that need normalising, repeat or match nothing; counts that are
\* numbers, numeric text, other text or missing
LoadInputs ==
  {<<ShpFile([k \in 1..Len(codes) |-> ShpRow(codes[k], k, GeomAt(k))]),
     CsvFile([k \in 1..Len(cells) |-> CsvRow(cells[k][1], cells[k][2])])>> :
     codes \in SeqsUpTo(ShpCodes, MaxShp),
     cells \in SeqsUpTo(CsvCodes \X CsvTotals, MaxCsv)}

\* the densities 1, 2, ..., 100
HundredInput ==
  <<ShpFile([k \in 1..100 |-> ShpRow(StrCell(IntToStr(k)), 1, GeomAt(k))]),
    CsvFile([k \in 1..100 |-> CsvRow(IntCell(k), IntCell(k))])>>

\* A (density 500, area 10), B (density 50, area 20), C (density 5, area 5)
ThreeInput ==
  <<ShpFile(<<ShpRow(StrCell(<<"A">>), 10, GeomAt(1)),
              ShpRow(StrCell(<<"B">>), 20, GeomAt(3)),
              ShpRow(StrCell(<<"C">>), 5, GeomAt(2))>>),
    CsvFile(<<CsvRow(StrCell(<<"A">>), IntCell(5000)),
              CsvRow(StrCell(<<"B">>), IntCell(1000)),
              CsvRow(StrCell(<<"C">>), IntCell(25))>>)>>

\* the three regions, C without a geometry
MissingGeomInput ==
  <<[ThreeInput[1] EXCEPT !.rows[3].geometry = NoneGeom], ThreeInput[2]>>

WithoutCol(file, c) ==
  [file EXCEPT !.cols = @ \ {c},
               !.rows = [j \in 1..Len(file.rows) |->
                           [k \in (DOMAIN file.rows[j]) \ {c} |-> file.rows[j][k]]]]

\* an unreadable path or a missing column
FaultyInputs ==
  LET shp == ThreeInput[1]
      csv == ThreeInput[2]
  IN {<<[shp EXCEPT !.readable = FALSE], csv>>,
      <<shp, [csv EXCEPT !.readable = FALSE]>>,
      <<[shp EXCEPT !.readable = FALSE], [csv EXCEPT !.readable = FALSE]>>,
      <<WithoutCol(shp, "SA2_CODE21"), csv>>,
      <<WithoutCol(shp, "AREASQKM21"), csv>>,
      <<shp, WithoutCol(csv, "SA2_CODE_2021")>>,
      <<shp, WithoutCol(csv, "Total_Total")>>,
      <<WithoutCol(shp, "AREASQKM21"), WithoutCol(csv, "Total_Total")>>}

Inputs ==
  GeoInputs \cup LoadInputs \cup {HundredInput, ThreeInput, MissingGeomInput}
    \cup FaultyInputs

\* some row of the boundary file has a zero area
HasZeroArea(shp) ==
  /\ "AREASQKM21" \in shp.cols
  /\ \E k \in 1..Len(shp.rows) : shp.rows[k].AREASQKM21 = 0

\* the interpolations of the numpy releases; they differ on infinite values
\* only, so the release is varied for the inputs that can produce one
Releases(shp) == IF HasZeroArea(shp) THEN {"sub", "weights"} ELSE {"sub"}

Init ==
  /\ \E inp \in Inputs :
       /\ shpFile = inp[1] /\ csvFile = inp[2]
       /\ numpy_lerp \in Releases(inp[1])
  /\ pc = "read_shp"
  /\ failedAt = 0
  /\ gdf = NoFrame /\ housing = NoFrame
  /\ high_density_threshold = NaN
  /\ developed = NoFrame
  /\ gdf_m = NoFrame /\ developed_m = NoFrame
  /\ buffered = NoFrame /\ hot_zones_m = NoFrame
  /\ figure = <<>>
  /\ gdf_f = NoFrame /\ developed_f = NoFrame /\ hot_zones_f = NoFrame
  /\ m = <<>>
  /\ saved = FALSE

\* ----------------------------------------------------------------- actions
\* an uncaught exception ends the script
Raise(line) == pc' = "failed" /\ failedAt' = line

Goto(next) == pc' = next /\ failedAt' = failedAt

\* 1. gdf = gpd.read_file(shapefile_path)
ReadShapefile ==
  /\ pc = "read_shp"
  /\ IF shpFile.readable
       THEN /\ gdf' = [cols |-> shpFile.cols, crs |-> shpFile.crs,
                       rows |-> shpFile.rows]
            /\ Goto("read_csv")
       ELSE /\ Raise(9)
            /\ UNCHANGED gdf
  /\ UNCHANGED <<numpy_lerp, shpFile, csvFile, housing, high_density_threshold, developed,
                 gdf_m, developed_m, buffered, hot_zones_m, figure, gdf_f,
                 developed_f, hot_zones_f, m, saved>>

\* an unreadable file read as an empty table
ReadCsvLenient ==
  /\ pc = "read_csv"
  /\ housing' = IF csvFile.readable
                  THEN [cols |-> csvFile.cols, crs |-> 0, rows |-> csvFile.rows]
                  ELSE NoFrame
  /\ Goto("strip_codes")
  /\ UNCHANGED <<numpy_lerp, shpFile, csvFile, gdf, high_density_threshold, developed,
                 gdf_m, developed_m, buffered, hot_zones_m, figure, gdf_f,
                 developed_f, hot_zones_f, m, saved>>

\* 2. housing = pd.read_csv(csv_path)
ReadCsv ==
  /\ pc = "read_csv"
  /\ IF csvFile.readable
       THEN /\ housing' = [cols |-> csvFile.cols, crs |-> 0, rows |-> csvFile.rows]
            /\ Goto("strip_codes")
       ELSE /\ Raise(13)
            /\ UNCHANGED housing
  /\ UNCHANGED <<numpy_lerp, shpFile, csvFile, gdf, high_density_threshold, developed,
                 gdf_m, developed_m, buffered, hot_zones_m, figure, gdf_f,
                 developed_f, hot_zones_f, m, saved>>

\* gdf['SA2_CODE21'] = ...astype(str).str.strip(), then the same on housing;
\* a missing column raises KeyError
StripCodes ==
  /\ pc = "strip_codes"
  /\ IF "SA2_CODE21" \notin gdf.cols
       THEN Raise(16) /\ UNCHANGED <<gdf, housing>>
     ELSE /\ gdf' = Assign(gdf, "SA2_CODE21",
                 [k \in 1..Len(gdf.rows) |-> NormalizeKey(gdf.rows[k].SA2_CODE21)])
          /\ IF "SA2_CODE_2021" \notin housing.cols
               THEN Raise(17) /\ UNCHANGED housing
               ELSE /\ housing' = Assign(housing, "SA2_CODE_2021",
                         [k \in 1..Len(housing.rows) |->
                            NormalizeKey(housing.rows[k].SA2_CODE_2021)])
                    /\ Goto("coerce")
  /\ UNCHANGED <<numpy_lerp, shpFile, csvFile, high_density_threshold, developed,
                 gdf_m, developed_m, buffered, hot_zones_m, figure, gdf_f,
                 developed_f, hot_zones_f, m, saved>>

\* the coercion without the dropna
CoerceTotalsKeepNa ==
  /\ pc = "coerce"
  /\ IF "Total_Total" \notin housing.cols
       THEN Raise(20) /\ UNCHANGED housing
       ELSE /\ housing' = Assign(housing, "Total_Total",
                 [k \in 1..Len(housing.rows) |->
                    ToNumeric(housing.rows[k].Total_Total)])
            /\ Goto("merge")
  /\ UNCHANGED <<numpy_lerp, shpFile, csvFile, gdf, high_density_threshold, developed,
                 gdf_m, developed_m, buffered, hot_zones_m, figure, gdf_f,
                 developed_f, hot_zones_f, m, saved>>

\* housing['Total_Total'] = pd.to_numeric(..., errors='coerce');
\* housing = housing.dropna(subset=['Total_Total'])
CoerceTotals ==
  /\ pc = "coerce"
  /\ IF "Total_Total" \notin housing.cols
       THEN Raise(20) /\ UNCHANGED housing
       ELSE /\ housing' =
                 LET coerced == Assign(housing, "Total_Total",
                       [k \in 1..Len(housing.rows) |->
                          ToNumeric(housing.rows[k].Total_Total)])
                 IN Filter(coerced, [k \in 1..Len(coerced.rows) |->
                                       ~IsNaN(coerced.rows[k].Total_Total)])
            /\ Goto("merge")
  /\ UNCHANGED <<numpy_lerp, shpFile, csvFile, gdf, high_density_threshold, developed,
                 gdf_m, developed_m, buffered, hot_zones_m, figure, gdf_f,
                 developed_f, hot_zones_f, m, saved>>

\* 3. gdf = gdf.merge(housing[[...]], left_on, right_on, how='inner')
Merge ==
  /\ pc = "merge"
  /\ gdf' = InnerMerge(gdf, housing, "SA2_CODE21", "SA2_CODE_2021")
  /\ Goto("density")
  /\ UNCHANGED <<numpy_lerp, shpFile, csvFile, housing, high_density_threshold, developed,
                 gdf_m, developed_m, buffered, hot_zones_m, figure, gdf_f,
                 developed_f, hot_zones_f, m, saved>>

\* 4. gdf['housing_density'] = gdf['Total_Total'] / gdf['AREASQKM21']
ComputeDensity ==
  /\ pc = "density"
  /\ IF "AREASQKM21" \notin gdf.cols
       THEN Raise(32) /\ UNCHANGED gdf
       ELSE /\ gdf' = Assign(gdf, "housing_density",
                 [k \in 1..Len(gdf.rows) |->
                    FDiv(gdf.rows[k].Total_Total, Num(gdf.rows[k].AREASQKM21))])
            /\ Goto("classify")
  /\ UNCHANGED <<numpy_lerp, shpFile, csvFile, housing, high_density_threshold, developed,
                 gdf_m, developed_m, buffered, hot_zones_m, figure, gdf_f,
                 developed_f, hot_zones_f, m, saved>>

\* rows strictly above the threshold
ClassifyStrict ==
  /\ pc = "classify"
  /\ \E thr \in {QuantileBy(numpy_lerp, Column(gdf, "housing_density"), quantile_q)} :
        /\ high_density_threshold' = thr
        /\ developed' = Filter(gdf, [k \in 1..Len(gdf.rows) |->
             /\ GE(gdf.rows[k].housing_density, thr)
             /\ ~GE(thr, gdf.rows[k].housing_density)])
  /\ Goto("project")
  /\ UNCHANGED <<numpy_lerp, shpFile, csvFile, gdf, housing,
                 gdf_m, developed_m, buffered, hot_zones_m, figure, gdf_f,
                 developed_f, hot_zones_f, m, saved>>

\* 5. the 0.70 quantile of the density column, and the rows at or above it
Classify ==
  /\ pc = "classify"
  /\ \E thr \in {QuantileBy(numpy_lerp, Column(gdf, "housing_density"), quantile_q)} :
        /\ high_density_threshold' = thr
        /\ developed' = Filter(gdf, [k \in 1..Len(gdf.rows) |->
                                       GE(gdf.rows[k].housing_density, thr)])
  /\ Goto("project")
  /\ UNCHANGED <<numpy_lerp, shpFile, csvFile, gdf, housing,
                 gdf_m, developed_m, buffered, hot_zones_m, figure, gdf_f,
                 developed_f, hot_zones_f, m, saved>>

\* the frames passed on without reprojection
ProjectSkipped ==
  /\ pc = "project"
  /\ gdf_m' = gdf
  /\ developed_m' = developed
  /\ Goto("buffer")
  /\ UNCHANGED <<numpy_lerp, shpFile, csvFile, gdf, housing, high_density_threshold,
                 developed, buffered, hot_zones_m, figure, gdf_f,
                 developed_f, hot_zones_f, m, saved>>

\* 6. gdf_m = gdf.to_crs(epsg=3857); developed_m = developed.to_crs(epsg=3857)
Project ==
  /\ pc = "project"
  /\ gdf_m' = ToCrs(gdf, EPSG_METERS)
  /\ developed_m' = ToCrs(developed, EPSG_METERS)
  /\ Goto("buffer")
  /\ UNCHANGED <<numpy_lerp, shpFile, csvFile, gdf, housing, high_density_threshold,
                 developed, buffered, hot_zones_m, figure, gdf_f,
                 developed_f, hot_zones_f, m, saved>>

\* buffered = developed_m.copy(); buffered['geometry'] = ...buffer(10000)
BufferDeveloped ==
  /\ pc = "buffer"
  /\ buffered' = Assign(developed_m, "geometry",
       [k \in 1..Len(developed_m.rows) |->
          Buffer(developed_m.rows[k].geometry, buffer_distance)])
  /\ Goto("hot_zones")
  /\ UNCHANGED <<numpy_lerp, shpFile, csvFile, gdf, housing, high_density_threshold,
                 developed, gdf_m, developed_m, hot_zones_m, figure, gdf_f,
                 developed_f, hot_zones_f, m, saved>>

\* the developed rows removed by row instead of by code
HotZonesByRow ==
  /\ pc = "hot_zones"
  /\ hot_zones_m' =
       LET near == Filter(gdf_m, [k \in 1..Len(gdf_m.rows) |->
                     IntersectsUnion(gdf_m.rows[k].geometry,
                                     UnaryUnion(buffered.rows))])
       IN Filter(near, [k \in 1..Len(near.rows) |->
            near.rows[k] \notin {developed_m.rows[j] : j \in 1..Len(developed_m.rows)}])
  /\ Goto("band")
  /\ UNCHANGED <<numpy_lerp, shpFile, csvFile, gdf, housing, high_density_threshold,
                 developed, gdf_m, developed_m, buffered, figure, gdf_f,
                 developed_f, hot_zones_f, m, saved>>

\* hot_zones_m = gdf_m[gdf_m.geometry.intersects(buffered.unary_union)], then
\* without the rows whose code is among the developed codes
HotZones ==
  /\ pc = "hot_zones"
  /\ hot_zones_m' =
       LET near == Filter(gdf_m, [k \in 1..Len(gdf_m.rows) |->
                     IntersectsUnion(gdf_m.rows[k].geometry,
                                     UnaryUnion(buffered.rows))])
       IN Filter(near, [k \in 1..Len(near.rows) |->
            near.rows[k].SA2_CODE21 \notin ColumnSet(developed, "SA2_CODE21")])
  /\ Goto("band")
  /\ UNCHANGED <<numpy_lerp, shpFile, csvFile, gdf, housing, high_density_threshold,
                 developed, gdf_m, developed_m, buffered, figure, gdf_f,
                 developed_f, hot_zones_f, m, saved>>

\* the band without its lower bound
BandFilterNoFloor ==
  /\ pc = "band"
  /\ hot_zones_m' =
       Filter(hot_zones_m, [k \in 1..Len(hot_zones_m.rows) |->
                LE(hot_zones_m.rows[k].housing_density, Num(max_density))])
  /\ Goto("plot")
  /\ UNCHANGED <<numpy_lerp, shpFile, csvFile, gdf, housing, high_density_threshold,
                 developed, gdf_m, developed_m, buffered, figure, gdf_f,
                 developed_f, hot_zones_f, m, saved>>

\* 7. hot_zones_m = hot_zones_m[(density >= min_density) & (density <= max_density)]
BandFilter ==
  /\ pc = "band"
  /\ hot_zones_m' =
       Filter(hot_zones_m, [k \in 1..Len(hot_zones_m.rows) |->
                /\ GE(hot_zones_m.rows[k].housing_density, Num(min_density))
                /\ LE(hot_zones_m.rows[k].housing_density, Num(max_density))])
  /\ Goto("plot")
  /\ UNCHANGED <<numpy_lerp, shpFile, csvFile, gdf, housing, high_density_threshold,
                 developed, gdf_m, developed_m, buffered, figure, gdf_f,
                 developed_f, hot_zones_f, m, saved>>

Layer(color, frame) ==
  [color |-> color, crs |-> frame.crs, shapes |-> Column(frame, "geometry")]

\* 8. the static map: three layers drawn, nothing written to disk
StaticMap ==
  /\ pc = "plot"
  /\ figure' = <<Layer("lightgrey", gdf_m), Layer("purple", developed_m),
                 Layer("red", hot_zones_m)>>
  /\ Goto("to_wgs84")
  /\ UNCHANGED <<numpy_lerp, shpFile, csvFile, gdf, housing, high_density_threshold,
                 developed, gdf_m, developed_m, buffered, hot_zones_m, gdf_f,
                 developed_f, hot_zones_f, m, saved>>

\* frame[~frame['geometry'].isna()]
DropMissingGeometry(frame) ==
  Filter(frame, [k \in 1..Len(frame.rows) |-> ~IsNa(frame.rows[k].geometry)])

\* 9. back to EPSG:4326, rows with a missing geometry removed
ToWgs84 ==
  /\ pc = "to_wgs84"
  /\ gdf_f' = DropMissingGeometry(ToCrs(gdf_m, EPSG_WGS84))
  /\ developed_f' = DropMissingGeometry(ToCrs(developed_m, EPSG_WGS84))
  /\ hot_zones_f' = DropMissingGeometry(ToCrs(hot_zones_m, EPSG_WGS84))
  /\ Goto("folium")
  /\ UNCHANGED <<numpy_lerp, shpFile, csvFile, gdf, housing, high_density_threshold,
                 developed, gdf_m, developed_m, buffered, hot_zones_m, figure,
                 m, saved>>

\* f"{x:.1f}": one decimal, ties to even; the densities of the model are
\* exact in binary wherever a tie occurs
Format1f(x) ==
  IF IsNaN(x) THEN <<"n", "a", "n">>
  ELSE IF IsInf(x) THEN <<"i", "n", "f">>
  ELSE LET q == (10 * x.n) \div x.d
           r == (10 * x.n) % x.d
           tenths == IF 2 * r > x.d THEN q + 1
                     ELSE IF 2 * r < x.d THEN q
                     ELSE IF q % 2 = 0 THEN q ELSE q + 1
       IN IntToStr(tenths \div 10) \o <<".", DigitChar(tenths % 10)>>

\* f"{row['SA2_CODE21']}: {row['housing_density']:.1f} dwellings/km2"
Tooltip(r) ==
  r.SA2_CODE21 \o <<":", " ">> \o Format1f(r.housing_density)
    \o <<" ", "dwellings/km2">>

GeoJsonLayers(frame, color, withTooltip) ==
  [k \in 1..Len(frame.rows) |->
    [color |-> color, crs |-> frame.crs, shape |-> frame.rows[k].geometry,
     tooltip |-> IF withTooltip THEN Tooltip(frame.rows[k]) ELSE <<>>]]

\* the folium map: every region in grey, developed in purple, hot zones in red
FoliumMap ==
  /\ pc = "folium"
  /\ m' = GeoJsonLayers(gdf_f, "grey", FALSE)
            \o GeoJsonLayers(developed_f, "purple", TRUE)
            \o GeoJsonLayers(hot_zones_f, "red", TRUE)
  /\ Goto("save")
  /\ UNCHANGED <<numpy_lerp, shpFile, csvFile, gdf, housing, high_density_threshold,
                 developed, gdf_m, developed_m, buffered, hot_zones_m, figure,
                 gdf_f, developed_f, hot_zones_f, saved>>

\* m.save("growth_ready_hot_zone_map.html")
Save ==
  /\ pc = "save"
  /\ saved' = TRUE
  /\ Goto("done")
  /\ UNCHANGED <<numpy_lerp, shpFile, csvFile, gdf, housing, high_density_threshold,
                 developed, gdf_m, developed_m, buffered, hot_zones_m, figure,
                 gdf_f, developed_f, hot_zones_f, m>>

Next ==
  \/ ReadShapefile \/ ReadCsv \/ StripCodes \/ CoerceTotals \/ Merge
  \/ ComputeDensity \/ Classify \/ Project \/ BufferDeveloped \/ HotZones
  \/ BandFilter \/ StaticMap \/ ToWgs84 \/ FoliumMap \/ Save

Spec == Init /\ [][Next]_vars

\* the runs under a current numpy release
InitCurrent == Init /\ numpy_lerp = "sub"

SpecCurrent == InitCurrent /\ [][Next]_vars

\* ------------------------------------------------------ stages of the run
Order ==
  <<"read_shp", "read_csv", "strip_codes", "coerce", "merge", "density",
    "classify", "project", "buffer", "hot_zones", "band", "plot", "to_wgs84",
    "folium", "save", "done">>

Idx(p) == CHOOSE k \in 1..Len(Order) : Order[k] = p

\* the section p has run to its end
Past(p) == pc # "failed" /\ Idx(pc) > Idx(p)

RowsOf(frame) == {frame.rows[k] : k \in 1..Len(frame.rows)}

DevelopedCodes == ColumnSet(developed, "SA2_CODE21")

\* distance in metres between two projected geometries, 0 when they overlap
Gap(g, h) ==
  IF g.lo > h.hi THEN g.lo - h.hi
  ELSE IF h.lo > g.hi THEN h.lo - g.hi
  ELSE 0

\* r lies within the buffer distance of a developed region
NearDeveloped(r) ==
  /\ ~IsNa(r.geometry)
  /\ \E d \in RowsOf(developed_m) :
       ~IsNa(d.geometry) /\ Gap(r.geometry, d.geometry) <= buffer_distance

InBand(x) ==
  /\ IsFinite(x)
  /\ x.n >= min_density * x.d
  /\ x.n <= max_density * x.d

\* ------------------------------------------------------------------- claims
\* C1: the growth-ready rows never carry a code that is among the codes of
\* the high-density rows, also when several joined rows share one code.
C1_Exclusion ==
  Past("hot_zones") =>
    ColumnSet(hot_zones_m, "SA2_CODE21") \cap DevelopedCodes = {}

\* a row that is near a developed region and inside the band, is not itself
\* developed, and shares its code with a developed row
C1_Witness ==
  /\ pc = "done"
  /\ \E r \in RowsOf(gdf_m) :
       /\ r.SA2_CODE21 \in DevelopedCodes
       /\ ~GE(r.housing_density, high_density_threshold)
       /\ NearDeveloped(r)
       /\ InBand(r.housing_density)

\* C2: every growth-ready row has a density in [min_density, max_density]
\* and lies within the buffer distance of a high-density region; a row below
\* min_density is left out even when it touches the buffer.
C2_Sound ==
  Past("band") =>
    /\ \A r \in RowsOf(hot_zones_m) :
         InBand(r.housing_density) /\ NearDeveloped(r)
    /\ \A r \in RowsOf(gdf_m) :
         (IsFinite(r.housing_density) /\ r.housing_density.n < min_density * r.housing_density.d)
           => r \notin RowsOf(hot_zones_m)

\* a region of density 5 next to a developed region is left out while
\* another region is growth-ready
C2_Witness ==
  /\ pc = "done"
  /\ hot_zones_m.rows # <<>>
  /\ \E r \in RowsOf(gdf_m) :
       /\ r.housing_density = Num(5)
       /\ NearDeveloped(r)
       /\ r.SA2_CODE21 \notin DevelopedCodes
       /\ r \notin RowsOf(hot_zones_m)

\* C3: the high-density rows are exactly the joined rows whose density is at
\* or above the threshold, a row equal to the threshold included; they and
\* the remaining rows are disjoint and together are the joined rows.
C3_Partition ==
  Past("classify") =>
    LET high == {k \in 1..Len(gdf.rows) :
                   /\ ~IsNaN(gdf.rows[k].housing_density)
                   /\ ~IsNaN(high_density_threshold)
                   /\ \/ gdf.rows[k].housing_density = high_density_threshold
                      \/ ~GE(high_density_threshold, gdf.rows[k].housing_density)}
        other == (1..Len(gdf.rows)) \ high
    IN /\ RowsOf(developed) = {gdf.rows[k] : k \in high}
       /\ Len(developed.rows) = Cardinality(high)
       /\ Len(developed.rows) + Cardinality(other) = Len(gdf.rows)
       /\ \A k \in other : \A j \in 1..Len(developed.rows) :
            developed.rows[j].housing_density # gdf.rows[k].housing_density

\* a row whose density equals the threshold is high-density and another row
\* is not
C3_Witness ==
  /\ Past("classify")
  /\ \E r \in RowsOf(developed) : r.housing_density = high_density_threshold
  /\ Len(developed.rows) < Len(gdf.rows)

\* the k-th smallest (k from 0) of the values of col, by counting
OrderStat(col, k) ==
  CHOOSE v \in {col[i] : i \in 1..Len(col)} :
    /\ Cardinality({i \in 1..Len(col) : ~GE(col[i], v)}) <= k
    /\ k < Cardinality({i \in 1..Len(col) : GE(v, col[i])})

\* C4: the threshold is the 0.70 quantile by linear interpolation between the
\* order statistics around position 0.70 * (n - 1); the densities 1..100
\* give 70.3 and the high-density values 71..100; of the densities 500, 50
\* and 5 only the region A (500) is high-density.
C4_Quantile ==
  Past("classify") =>
    LET col == Column(gdf, "housing_density")
        cnt == Len(col)
        pos == 70 * (cnt - 1)
        f == pos % 100
        a == OrderStat(col, pos \div 100)
        b == OrderStat(col, Min2((pos \div 100) + 1, cnt - 1))
        thr == high_density_threshold
    IN /\ (cnt > 0 /\ \A i \in 1..cnt : IsFinite(col[i])) =>
            /\ IsFinite(thr)
            /\ 100 * thr.n * a.d * b.d
                 = thr.d * ((100 - f) * a.n * b.d + f * b.n * a.d)
       /\ col = [k \in 1..100 |-> Num(k)] =>
            /\ thr = [n |-> 703, d |-> 10]
            /\ {r.housing_density : r \in RowsOf(developed)}
                 = {Num(k) : k \in 71..100}
            /\ Len(developed.rows) = 30
       /\ (shpFile = ThreeInput[1] /\ csvFile = ThreeInput[2]) =>
            DevelopedCodes = {<<"A">>}

\* the densities 1..100 have been classified
C4_Witness ==
  /\ Past("classify")
  /\ Len(gdf.rows) = 100
  /\ high_density_threshold = [n |-> 703, d |-> 10]
  /\ Len(developed.rows) = 30

\* no path is unreadable and no required column is absent
NoFault ==
  /\ shpFile.readable /\ csvFile.readable
  /\ {"SA2_CODE21", "AREASQKM21"} \subseteq shpFile.cols
  /\ {"SA2_CODE_2021", "Total_Total"} \subseteq csvFile.cols

\* C5: a joined region of area zero does not stop the run and is neither
\* high-density nor growth-ready.
C5_ZeroAreaExcluded ==
  /\ NoFault => pc # "failed"
  /\ Past("band") =>
       \A k \in 1..Len(gdf.rows) :
         gdf.rows[k].AREASQKM21 = 0 =>
           /\ gdf.rows[k] \notin RowsOf(developed)
           /\ gdf_m.rows[k] \notin RowsOf(hot_zones_m)

\* s without its leading and trailing whitespace, as a sub-sequence of s
Trimmed(s) ==
  CHOOSE t \in {SubSeq(s, i, j) : i \in 1..(Len(s) + 1), j \in 0..Len(s)} :
    /\ t = <<>> \/ (t[1] \notin Whitespace /\ t[Len(t)] \notin Whitespace)
    /\ \E i \in 1..(Len(s) + 1), j \in 0..Len(s) :
         /\ t = SubSeq(s, i, j)
         /\ \A k \in 1..Len(s) : (k < i \/ k > j) => s[k] \in Whitespace

ExpectedKey(cell) ==
  IF cell.t = "int" THEN IntToStr(cell.i) ELSE Trimmed(cell.s)

NumericCell(cell) ==
  \/ cell.t = "int"
  \/ cell.t = "str" /\ cell.s # <<>> /\ \A k \in 1..Len(cell.s) : cell.s[k] \in Digits

\* C6: the joined rows are the pairs of a boundary row and a retained census
\* row whose trimmed text codes are equal; a code found in one table only is
\* absent from the joined output.
C6_InnerJoin ==
  Past("merge") =>
    LET left == {ExpectedKey(shpFile.rows[k].SA2_CODE21) :
                   k \in 1..Len(shpFile.rows)}
        kept == {k \in 1..Len(csvFile.rows) :
                   NumericCell(csvFile.rows[k].Total_Total)}
        right == {ExpectedKey(csvFile.rows[k].SA2_CODE_2021) : k \in kept}
        pairs == {pr \in (1..Len(shpFile.rows)) \X kept :
                    ExpectedKey(shpFile.rows[pr[1]].SA2_CODE21)
                      = ExpectedKey(csvFile.rows[pr[2]].SA2_CODE_2021)}
    IN /\ ColumnSet(gdf, "SA2_CODE21") = left \cap right
       /\ Len(gdf.rows) = Cardinality(pairs)

\* a code joined only after normalisation, a boundary code without census
\* row and a census code without boundary row
C6_Witness ==
  /\ Past("merge")
  /\ <<"1">> \in ColumnSet(gdf, "SA2_CODE21")
  /\ \E k \in 1..Len(shpFile.rows) :
       ExpectedKey(shpFile.rows[k].SA2_CODE21) \notin ColumnSet(gdf, "SA2_CODE21")
  /\ \E k \in 1..Len(csvFile.rows) :
       /\ NumericCell(csvFile.rows[k].Total_Total)
       /\ ExpectedKey(csvFile.rows[k].SA2_CODE_2021) \notin ColumnSet(gdf, "SA2_CODE21")
  /\ \E k \in 1..Len(shpFile.rows) :
       shpFile.rows[k].SA2_CODE21.s = <<" ", "1">>

\* C7: census rows whose count is not a number are dropped without an error
\* before the join, so no joined row has a missing count and the other rows
\* go on.
C7_DropNonNumeric ==
  /\ NoFault => pc # "failed"
  /\ Past("coerce") =>
       /\ \A r \in RowsOf(housing) : IsFinite(r.Total_Total)
       /\ Len(housing.rows)
            = Cardinality({k \in 1..Len(csvFile.rows) :
                             NumericCell(csvFile.rows[k].Total_Total)})
  /\ Past("merge") => \A r \in RowsOf(gdf) : IsFinite(r.Total_Total)

\* a run to the end with one census row dropped and another one joined
C7_Witness ==
  /\ pc = "done"
  /\ \E k \in 1..Len(csvFile.rows) : ~NumericCell(csvFile.rows[k].Total_Total)
  /\ gdf.rows # <<>>

\* the line at which the inputs make the script raise, 0 for sound inputs
FaultLine ==
  IF ~shpFile.readable THEN 9
  ELSE IF ~csvFile.readable THEN 13
  ELSE IF "SA2_CODE21" \notin shpFile.cols THEN 16
  ELSE IF "SA2_CODE_2021" \notin csvFile.cols THEN 17
  ELSE IF "Total_Total" \notin csvFile.cols THEN 20
  ELSE IF "AREASQKM21" \notin shpFile.cols THEN 32
  ELSE 0

FaultStage ==
  CASE FaultLine = 9 -> "read_shp"
    [] FaultLine = 13 -> "read_csv"
    [] FaultLine \in {16, 17} -> "strip_codes"
    [] FaultLine = 20 -> "coerce"
    [] FaultLine = 32 -> "density"

\* C8: with an unreadable path or an absent required column the run raises
\* at the section that needs it, no later section runs, the map file is
\* never written, and nothing runs after the failure.
C8_Abort ==
  /\ [](FaultLine # 0 =>
          /\ ~saved /\ m = <<>> /\ figure = <<>>
          /\ pc # "done"
          /\ IF pc = "failed" THEN failedAt = FaultLine
             ELSE Idx(pc) <= Idx(FaultStage))
  /\ [][pc # "failed"]_vars

\* the area column is absent and the run has stopped at the density line
C8_Witness ==
  /\ pc = "failed" /\ failedAt = 32
  /\ "AREASQKM21" \notin shpFile.cols
  /\ ~saved

\* C9: every joined row within the buffer distance of a high-density region
\* (touching included), whose code is not a high-density code and whose
\* density is in [min_density, max_density] (bounds included), is
\* growth-ready.
C9_Complete ==
  Past("band") =>
    \A r \in RowsOf(gdf_m) :
      (/\ NearDeveloped(r)
       /\ r.SA2_CODE21 \notin DevelopedCodes
       /\ InBand(r.housing_density))
        => r \in RowsOf(hot_zones_m)

\* growth-ready rows of density exactly 10 and exactly 200, the first one
\* exactly one buffer distance from the only developed region
C9_Witness ==
  /\ pc = "done"
  /\ Len(developed_m.rows) = 1
  /\ \E r \in RowsOf(hot_zones_m) :
       /\ r.housing_density = Num(min_density)
       /\ Gap(r.geometry, developed_m.rows[1].geometry) = buffer_distance
  /\ \E r \in RowsOf(hot_zones_m) : r.housing_density = Num(max_density)

\* C10: the buffer and the intersection test work on frames reprojected to
\* EPSG:3857, both in that CRS, and the frames given to the interactive map
\* have been reprojected to EPSG:4326.
C10_CrsOrder ==
  /\ Past("buffer") =>
       /\ developed_m.crs = EPSG_METERS
       /\ buffered.crs = EPSG_METERS
  /\ Past("hot_zones") =>
       /\ gdf_m.crs = EPSG_METERS
       /\ buffered.crs = gdf_m.crs
       /\ hot_zones_m.crs = EPSG_METERS
  /\ Past("folium") =>
       /\ gdf_f.crs = EPSG_WGS84
       /\ developed_f.crs = EPSG_WGS84
       /\ hot_zones_f.crs = EPSG_WGS84
       /\ \A k \in 1..Len(m) : m[k].crs = EPSG_WGS84

\* a run to the end with a buffered region, a hot zone and map layers
C10_Witness ==
  /\ pc = "done"
  /\ buffered.rows # <<>>
  /\ hot_zones_f.rows # <<>>
  /\ Len(m) > Len(gdf_f.rows)

====
